---- MODULE Spec2Model ----
(***************************************************************************)
(* Model of the concurrent crawl engine of site_inspector.py: crawl() (the *)
(* scheduler thread) and process_page() (one invocation per submitted      *)
(* future), with the module-level state visited / crawl_count.             *)
(***************************************************************************)
EXTENDS Integers, Sequences, FiniteSets, TLC

\* ---------------------------------------------------------------- bounds
MaxPagesBound == 4      \* max_pages is drawn from 0..MaxPagesBound
MaxWorkersBound == 2    \* max_workers is drawn from 1..MaxWorkersBound
MaxLinks == 4           \* the site has at most MaxLinks anchors in all

\* ------------------------------------------------------------------ URLs
\* A URL (or an href) as urlparse splits it: scheme, netloc, path.
Url(s, n, p) == [scheme |-> s, netloc |-> n, path |-> p]

\* the seed passed to crawl()
base_url == Url("http", "site", "/")

\* hrefs that anchors of the modelled site may carry
HrefB == Url("", "", "/b")                \* relative reference
HrefC == Url("http", "site", "/c")        \* absolute, same host
HrefX == Url("http", "other", "/x")       \* absolute, other host
HrefMail == Url("mailto", "", "m")        \* no netloc at all
HrefBad == Url("http", "[", "")           \* urlsplit raises ValueError
Hrefs == {HrefB, HrefC, HrefX, HrefMail, HrefBad}
\* hrefs urljoin resolves to an http url
HttpHrefs == {HrefB, HrefC, HrefX}

RECURSIVE SeqsUpTo(_, _)
SeqsUpTo(S, n) ==
    IF n = 0 THEN {<<>>}
    ELSE LET shorter == SeqsUpTo(S, n - 1)
         IN  shorter \cup {Append(s, x) : s \in {t \in shorter : Len(t) = n - 1}, x \in S}

\* the lists of anchors a GET may serve: the anchors to /c (any number, so
\* that a link may repeat), then the anchors to /b, then at most one
\* external anchor (which is never followed); and the pages whose one
\* anchor is a mailto: link or an href urljoin rejects
Bodies ==
    {q \in SeqsUpTo(HttpHrefs, MaxLinks) :
        \A k \in 1..(Len(q) - 1) :
            q[k] = HrefC \/ (q[k] = HrefB /\ q[k + 1] # HrefC)}
    \cup {<<HrefMail>>, <<HrefBad>>}

\* urllib.parse.urljoin raises ValueError on an href it cannot split
urljoin_raises(url) == url.netloc = "["

\* urllib.parse.urljoin(base, url)
urljoin(base, url) ==
    IF url.scheme # "" /\ url.scheme # base.scheme THEN url
    ELSE IF url.netloc # "" THEN Url(base.scheme, url.netloc, url.path)
    ELSE Url(base.scheme, base.netloc, IF url.path = "" THEN base.path ELSE url.path)

\* urlparse(x).netloc
netloc(url) == url.netloc

is_internal_link_always(base, link) == TRUE

is_internal_link(base, link) ==
    LET parsed_base == netloc(base)
        parsed_link == netloc(link)
    IN  parsed_link = "" \/ parsed_link = parsed_base

AllUrls == {base_url} \cup {urljoin(base_url, h) : h \in {g \in Hrefs : ~urljoin_raises(g)}}

\* ------------------------------------------------------- page analysis
\* visible text of the page at url, as the list of its alphabetic words
PageText(url) == IF url.path = "/" THEN <<"helo", "world">> ELSE <<"world">>

Dictionary == {"world", "hello"}
Correction(word) == IF word = "helo" THEN "hello" ELSE word

\* check_spelling: the dict {word: correction} as a set of pairs
check_spelling(text) ==
    LET words == {text[k] : k \in 1..Len(text)}
        misspelled == {w \in words : w \notin Dictionary}
    IN  {<<w, Correction(w)>> : w \in misspelled}

\* requests.head(full_url) raises or answers >= 400
HeadFails(full_url) == full_url.scheme # "http" \/ full_url.netloc = "other"

RECURSIVE broken_of(_, _)
broken_of(base, links) ==
    IF links = <<>> THEN <<>>
    ELSE LET full_url == urljoin(base, Head(links))
             rest == broken_of(base, Tail(links))
         IN  IF HeadFails(full_url) THEN <<full_url>> \o rest ELSE rest

\* check_broken_links raises when urljoin raises on one of the hrefs
check_broken_links_raises(links) == \E k \in 1..Len(links) : urljoin_raises(links[k])
check_broken_links(links, base) == broken_of(base, links)

EmptyResult == [spelling_issues |-> {}, broken_links |-> <<>>]

\* ------------------------------------------------------------- robots
\* a fresh RobotFileParser()
FreshParser == [disallow_all |-> FALSE, allow_all |-> FALSE,
                last_checked |-> 0, disallowed |-> {}]

\* the path sets a served robots.txt may disallow for "*"
RobotsFiles == {{"/b"}}

\* RobotFileParser.can_fetch("*", url)
can_fetch(parser, url) ==
    IF parser.disallow_all THEN FALSE
    ELSE IF parser.allow_all THEN TRUE
    ELSE IF parser.last_checked = 0 THEN FALSE
    ELSE url.path \notin parser.disallowed

can_fetch_url(url, parser) == can_fetch(parser, url)

VARIABLES
    visited,        \* module-level set
    crawl_count,    \* module-level counter
    max_pages,      \* arguments of crawl()
    max_workers,
    report,         \* crawl(): dict url -> result
    to_visit,       \* crawl(): list
    rp,             \* crawl(): the RobotFileParser
    robots_read,    \* how rp.read() ended
    futures,        \* crawl(): future -> its url and the state of its process_page call
    yielded,        \* futures already handed out by as_completed
    pc,             \* position of the scheduler thread in crawl()
    submitted,      \* every executor.submit of this call of crawl(), in order
    out,            \* lines printed so far by this call of crawl()
    site,           \* anchors served so far, per url
    at_call         \* visited and crawl_count as this call of crawl() found them

vars == <<visited, crawl_count, max_pages, max_workers, report, to_visit, rp,
          robots_read, futures, yielded, pc, submitted, out, site, at_call>>

Init ==
    /\ visited = {}
    /\ crawl_count = 0
    /\ max_pages \in 0..MaxPagesBound
    /\ max_workers \in 1..MaxWorkersBound
    /\ report = <<>>
    /\ to_visit = <<base_url>>
    /\ rp = FreshParser
    /\ robots_read = "pending"
    /\ futures = <<>>
    /\ yielded = {}
    /\ pc = "robots"
    /\ submitted = <<>>
    /\ out = {}
    /\ site = [u \in AllUrls |-> <<>>]
    /\ at_call = [visited |-> {}, crawl_count |-> 0]

\* crawl() is called again in the same process, with the same seed: its
\* locals are new, the module-level visited and crawl_count are as they were
Call ==
    /\ pc = "done"
    /\ max_pages' \in 0..MaxPagesBound
    /\ max_workers' \in 1..MaxWorkersBound
    /\ report' = <<>>
    /\ to_visit' = <<base_url>>
    /\ rp' = FreshParser
    /\ robots_read' = "pending"
    /\ futures' = <<>>
    /\ yielded' = {}
    /\ pc' = "robots"
    /\ submitted' = <<>>
    /\ out' = {}
    /\ site' = [u \in AllUrls |-> <<>>]
    /\ at_call' = [visited |-> visited, crawl_count |-> crawl_count]
    /\ UNCHANGED <<visited, crawl_count>>

\* ------------------------------------------------------ crawl(), scheduler
\* rp.read(): urlopen raises URLError, which crawl() swallows
ReadRobotsRaises ==
    /\ pc = "robots"
    /\ rp' = rp
    /\ robots_read' = "raised"
    /\ pc' = "outer"
    /\ UNCHANGED <<visited, crawl_count, max_pages, max_workers, report,
                   to_visit, futures, yielded, submitted, out, site, at_call>>

\* rp.read(): HTTPError answered, or a robots.txt served and parsed
ReadRobots ==
    /\ pc = "robots"
    /\ \/ /\ rp' = [rp EXCEPT !.disallow_all = TRUE]
          /\ robots_read' = "http403"
       \/ /\ rp' = [rp EXCEPT !.allow_all = TRUE]
          /\ robots_read' = "http404"
       \/ \E file \in RobotsFiles :
            /\ rp' = [rp EXCEPT !.last_checked = 1, !.disallowed = file]
            /\ robots_read' = "parsed"
    /\ pc' = "outer"
    /\ UNCHANGED <<visited, crawl_count, max_pages, max_workers, report,
                   to_visit, futures, yielded, submitted, out, site, at_call>>

under_budget_inclusive == crawl_count <= max_pages

\* the budget test of both while loops
under_budget == crawl_count < max_pages

outer_cond_budget_only == under_budget

\* the condition of the outer while loop
outer_cond == to_visit # <<>> /\ under_budget

\* the outer loop is entered: a new executor and an empty futures dict
OuterLoop ==
    /\ pc = "outer"
    /\ outer_cond
    /\ futures' = <<>>
    /\ yielded' = {}
    /\ pc' = "inner"
    /\ UNCHANGED <<visited, crawl_count, max_pages, max_workers, report,
                   to_visit, rp, robots_read, submitted, out, site, at_call>>

\* the outer loop ends: return report
Return ==
    /\ pc = "outer"
    /\ ~outer_cond
    /\ pc' = "done"
    /\ UNCHANGED <<visited, crawl_count, max_pages, max_workers, report,
                   to_visit, rp, robots_read, futures, yielded, submitted, out, site, at_call>>

inner_cond_no_pool_limit == to_visit # <<>> /\ under_budget

\* the condition of the inner while loop
inner_cond ==
    /\ to_visit # <<>>
    /\ Cardinality(DOMAIN futures) < max_workers
    /\ under_budget

already_visited_never(url) == FALSE

\* the test under visited_lock before a popped url is submitted
already_visited(url) == url \in visited

\* state of the process_page(url, ...) invocation at its entry
NewInvocation(url) == [url |-> url, pc |-> "begin", result |-> EmptyResult,
                       is_none |-> FALSE, new_links |-> <<>>, links |-> <<>>, i |-> 1]

\* pop(0) of a url that is already visited: continue
SkipVisited ==
    /\ pc = "inner"
    /\ inner_cond
    /\ already_visited(Head(to_visit))
    /\ to_visit' = Tail(to_visit)
    /\ UNCHANGED <<visited, crawl_count, max_pages, max_workers, report, rp,
                   robots_read, futures, yielded, pc, submitted, out, site, at_call>>

\* pop(0), visited.add and executor.submit
Submit ==
    /\ pc = "inner"
    /\ inner_cond
    /\ LET url == Head(to_visit)
       IN  /\ ~already_visited(url)
           /\ to_visit' = Tail(to_visit)
           /\ visited' = visited \cup {url}
           /\ futures' = ((Len(submitted) + 1) :> NewInvocation(url)) @@ futures
           /\ submitted' = Append(submitted, url)
    /\ UNCHANGED <<crawl_count, max_pages, max_workers, report, rp,
                   robots_read, yielded, pc, out, site, at_call>>

\* the inner loop ends: the scheduler waits in as_completed
EndSubmit ==
    /\ pc = "inner"
    /\ ~inner_cond
    /\ pc' = "collect"
    /\ UNCHANGED <<visited, crawl_count, max_pages, max_workers, report, to_visit,
                   rp, robots_read, futures, yielded, submitted, out, site, at_call>>

has_headroom_inclusive(tv) == Cardinality(visited) + Len(tv) <= max_pages

\* the budget test before a discovered link is appended
has_headroom(tv) == Cardinality(visited) + Len(tv) < max_pages

RECURSIVE add_new_links(_, _)
add_new_links(tv, new_links) ==
    IF new_links = <<>> THEN tv
    ELSE LET link == Head(new_links)
         IN  add_new_links(IF link \notin visited /\ has_headroom(tv)
                           THEN Append(tv, link) ELSE tv,
                           Tail(new_links))

\* as_completed yields a finished future; its result is recorded
Collect(future) ==
    /\ pc = "collect"
    /\ future \in DOMAIN futures
    /\ future \notin yielded
    /\ futures[future].pc = "done"
    /\ yielded' = yielded \cup {future}
    /\ IF ~futures[future].is_none
       THEN /\ report' = (futures[future].url :> futures[future].result) @@ report
            /\ to_visit' = add_new_links(to_visit, futures[future].new_links)
       ELSE UNCHANGED <<report, to_visit>>
    /\ UNCHANGED <<visited, crawl_count, max_pages, max_workers, rp,
                   robots_read, futures, pc, submitted, out, site, at_call>>

batch_drained_no_wait == TRUE

\* as_completed has yielded every future of the batch
batch_drained == yielded = DOMAIN futures

\* every future was yielded: the executor is shut down
EndBatch ==
    /\ pc = "collect"
    /\ batch_drained
    /\ pc' = "sleep"
    /\ UNCHANGED <<visited, crawl_count, max_pages, max_workers, report, to_visit,
                   rp, robots_read, futures, yielded, submitted, out, site, at_call>>

\* time.sleep(0.2) returns
Sleep ==
    /\ pc = "sleep"
    /\ pc' = "outer"
    /\ UNCHANGED <<visited, crawl_count, max_pages, max_workers, report, to_visit,
                   rp, robots_read, futures, yielded, submitted, out, site, at_call>>

\* ------------------------------------------------- process_page(), workers
Running(future, at) == future \in DOMAIN futures /\ futures[future].pc = at

\* the value process_page returns from its budget guard: None, []
ReturnNone(w) == [w EXCEPT !.pc = "done", !.is_none = TRUE, !.new_links = <<>>]

ReturnDisallowed_fetches(w) == [w EXCEPT !.pc = "get"]

\* the value process_page returns for a robots-disallowed url: result, []
ReturnDisallowed(w) == [w EXCEPT !.pc = "done", !.new_links = <<>>]

except_returns_none(w) == [w EXCEPT !.pc = "done", !.is_none = TRUE]

\* the except clause falls through to return result, new_links
except_returns(w) == [w EXCEPT !.pc = "done"]

\* entry of process_page: the budget guard, then the robots check
Begin(future) ==
    /\ Running(future, "begin")
    /\ futures' = [futures EXCEPT ![future] =
          IF crawl_count >= max_pages THEN ReturnNone(@)
          ELSE IF ~can_fetch_url(@.url, rp) THEN ReturnDisallowed(@)
          ELSE [@ EXCEPT !.pc = "get"]]
    /\ UNCHANGED <<visited, crawl_count, max_pages, max_workers, report, to_visit,
                   rp, robots_read, yielded, pc, submitted, out, site, at_call>>

\* requests.get raises (timeout, connection error, unsupported scheme)
GetRaises(future) ==
    /\ Running(future, "get")
    /\ futures' = [futures EXCEPT ![future] = except_returns(@)]
    /\ out' = out \cup {<<"Error crawling", futures[future].url, "RequestException">>}
    /\ UNCHANGED <<visited, crawl_count, max_pages, max_workers, report, to_visit,
                   rp, robots_read, yielded, pc, submitted, site, at_call>>

RECURSIVE AnchorsOn(_)
AnchorsOn(urls) ==
    IF urls = {} THEN 0
    ELSE LET u == CHOOSE v \in urls : TRUE
         IN  Len(site[u]) + AnchorsOn(urls \ {u})

\* the bodies a GET may serve now: the site keeps within MaxLinks anchors
Servable ==
    LET room == MaxLinks - AnchorsOn(AllUrls)
    IN  {body \in Bodies : Len(body) <= room}

\* requests.get answers; the page is parsed, spell-checked and link-checked
GetPage(future) ==
    /\ Running(future, "get")
    /\ futures[future].url.scheme = "http"
    /\ \E body \in Servable :
        LET url == futures[future].url
            spelled == [futures[future] EXCEPT
                           !.links = body,
                           !.result.spelling_issues = check_spelling(PageText(url))]
        IN  /\ site' = [site EXCEPT ![url] = body]
            /\ IF check_broken_links_raises(body)
               THEN /\ futures' = [futures EXCEPT ![future] = except_returns(spelled)]
                    /\ out' = out \cup {<<"Error crawling", url, "ValueError">>}
               ELSE /\ futures' = [futures EXCEPT ![future] =
                          [spelled EXCEPT !.result.broken_links = check_broken_links(body, url),
                                          !.pc = "resolve"]]
                    /\ out' = out
    /\ UNCHANGED <<visited, crawl_count, max_pages, max_workers, report, to_visit,
                   rp, robots_read, yielded, pc, submitted, at_call>>

\* one iteration of the loop over the anchors of the page
Resolve(future) ==
    /\ Running(future, "resolve")
    /\ futures[future].i <= Len(futures[future].links)
    /\ LET w == futures[future]
           href == w.links[w.i]
       IN  IF urljoin_raises(href)
           THEN /\ futures' = [futures EXCEPT ![future] = except_returns(@)]
                /\ out' = out \cup {<<"Error crawling", w.url, "ValueError">>}
           ELSE LET full_url == urljoin(w.url, href)
                IN  /\ futures' = [futures EXCEPT ![future] =
                           [@ EXCEPT !.i = @ + 1,
                                     !.new_links =
                                        IF is_internal_link(base_url, full_url)
                                           /\ full_url \notin visited
                                        THEN Append(@, full_url) ELSE @]]
                    /\ out' = out
    /\ UNCHANGED <<visited, crawl_count, max_pages, max_workers, report, to_visit,
                   rp, robots_read, yielded, pc, submitted, site, at_call>>

incremented_twice(count) == count + 2

incremented_lost(count) == IF count = 1 THEN count ELSE count + 1

\* crawl_count += 1
incremented(count) == count + 1

\* crawl_count += 1 under crawl_count_lock, then the progress line
Count(future) ==
    /\ Running(future, "resolve")
    /\ futures[future].i > Len(futures[future].links)
    /\ crawl_count' = incremented(crawl_count)
    /\ out' = out \cup {<<"Crawled", crawl_count', futures[future].url>>}
    /\ futures' = [futures EXCEPT ![future].pc = "done"]
    /\ UNCHANGED <<visited, max_pages, max_workers, report, to_visit,
                   rp, robots_read, yielded, pc, submitted, site, at_call>>

Next ==
    \/ ReadRobotsRaises
    \/ ReadRobots
    \/ OuterLoop
    \/ Return
    \/ SkipVisited
    \/ Submit
    \/ EndSubmit
    \/ \E future \in DOMAIN futures : Collect(future)
    \/ EndBatch
    \/ Sleep
    \/ \E future \in DOMAIN futures : Begin(future)
    \/ \E future \in DOMAIN futures : GetRaises(future)
    \/ \E future \in DOMAIN futures : GetPage(future)
    \/ \E future \in DOMAIN futures : Resolve(future)
    \/ \E future \in DOMAIN futures : Count(future)
    \/ Call

Spec == Init /\ [][Next]_vars

\* the steps of the scheduler and of the workers inside a call of crawl()
Run == pc # "done" /\ Next

\* every thread keeps running and every network operation returns; the
\* caller need not call crawl() again
FairSpec == Spec /\ WF_vars(Run)

TypeOK ==
    /\ visited \subseteq AllUrls
    /\ crawl_count \in 0..MaxPagesBound
    /\ at_call.visited \subseteq visited
    /\ at_call.crawl_count <= crawl_count
    /\ DOMAIN report \subseteq AllUrls
    /\ DOMAIN futures \subseteq 1..MaxPagesBound
    /\ yielded \subseteq DOMAIN futures
    /\ \A k \in 1..Len(to_visit) : to_visit[k] \in AllUrls
    /\ pc \in {"robots", "outer", "inner", "collect", "sleep", "done"}

\* --------------------------------------------------------- properties
\* the urls submitted to process_page so far
Dispatched == {submitted[k] : k \in 1..Len(submitted)}

\* the invocations submitted and not yet returned
InFlight == {f \in DOMAIN futures : futures[f].pc # "done"}

\* C1: the report map never has more than max_pages entries.
C1_BudgetBound == Cardinality(DOMAIN report) <= max_pages

\* a run that filled the report up to max_pages although a page did not count
C1_Witness ==
    /\ pc = "done"
    /\ max_pages >= 2
    /\ Cardinality(DOMAIN report) = max_pages
    /\ crawl_count < max_pages

\* C2: the number of urls submitted to process_page, in flight plus
\* completed, never exceeds max_pages, whether or not they counted.
C2_DispatchBound == Len(submitted) <= max_pages

\* the whole budget was dispatched while a worker is still running and an
\* earlier page has failed
C2_Witness ==
    /\ max_pages >= 3
    /\ Len(submitted) = max_pages
    /\ InFlight # {}
    /\ \E line \in out : line[1] = "Error crawling"

\* C3: no url is submitted to process_page twice, so no two invocations in
\* flight have the same url and every url is a report key once.
C3_NoDoubleDispatch ==
    /\ \A j, k \in 1..Len(submitted) : submitted[j] = submitted[k] => j = k
    /\ \A f, g \in InFlight : futures[f].url = futures[g].url => f = g

\* a url queued again after it was dispatched is at the head of to_visit
C3_Witness ==
    /\ pc = "inner"
    /\ to_visit # <<>>
    /\ Head(to_visit) \in Dispatched
    /\ Cardinality(DOMAIN futures) < max_workers
    /\ crawl_count < max_pages

\* C4: every call of crawl() eventually returns.
C4_Termination == (pc # "done") ~> (pc = "done")

\* crawl() has returned after three dispatches, one of them a failed fetch
C4_Witness ==
    /\ pc = "done"
    /\ Len(submitted) >= 3
    /\ \E line \in out : line[1] = "Error crawling"

\* the urls the anchors served for url resolve to and crawl() would follow
LinksOf(url) ==
    {urljoin(url, site[url][k]) :
        k \in {j \in 1..Len(site[url]) :
                 /\ ~urljoin_raises(site[url][j])
                 /\ is_internal_link(base_url, urljoin(url, site[url][j]))}}

RECURSIVE ReachableFrom(_)
ReachableFrom(urls) ==
    LET more == urls \cup UNION {LinksOf(u) : u \in urls}
    IN  IF more = urls THEN urls ELSE ReachableFrom(more)

\* the internal pages of the site reachable from the seed
Reachable == ReachableFrom({base_url})

Crawled(url) == \E line \in out : line[1] = "Crawled" /\ line[3] = url
Raised(url) == \E line \in out : line[1] = "Error crawling" /\ line[2] = url

\* every page of the site is allowed by robots and fetches without error
AllFetchOk ==
    /\ \A u \in Reachable : u.scheme = "http" /\ can_fetch_url(u, rp)
    /\ \A u \in Dispatched : ~Raised(u)

Min(a, b) == IF a <= b THEN a ELSE b

\* C5: on a site whose pages all fetch successfully, with max_pages larger
\* than the number of internal pages, crawl() ends with every internal page
\* reachable from the seed dispatched exactly once and present in the report.
C5_CrawlsEveryPage ==
    (pc = "done" /\ AllFetchOk /\ max_pages > Cardinality(Reachable))
        => /\ Reachable \subseteq DOMAIN report
           /\ \A u \in Reachable :
                Cardinality({k \in 1..Len(submitted) : submitted[k] = u}) = 1

\* C6: with max_workers = 1 on a site whose pages all fetch successfully the
\* final report has exactly min(reachable pages, max_pages) entries.
C6_ExactCountSingleWorker ==
    (pc = "done" /\ max_workers = 1 /\ AllFetchOk)
        => Cardinality(DOMAIN report) = Min(Cardinality(Reachable), max_pages)

\* a url whose host is present and differs from the seed's host
External(url) == netloc(url) # "" /\ netloc(url) # netloc(base_url)

\* C7: a link whose host differs from the seed's host is never queued in
\* to_visit, never returned as a discovered link, never dispatched and never
\* a key of the report.
C7_ExternalNeverCrawled ==
    \A u \in {v \in AllUrls : External(v)} :
        /\ \A k \in 1..Len(to_visit) : to_visit[k] # u
        /\ \A f \in DOMAIN futures :
              \A k \in 1..Len(futures[f].new_links) : futures[f].new_links[k] # u
        /\ u \notin Dispatched
        /\ u \notin DOMAIN report

\* a crawled page carried an external link next to an internal one, and the
\* internal one was crawled
C7_Witness ==
    /\ pc = "done"
    /\ Cardinality(DOMAIN report) >= 2
    /\ \E u \in DOMAIN report :
          /\ Crawled(u)
          /\ \E k \in 1..Len(site[u]) : External(urljoin(u, site[u][k]))

\* C8: when rp.read() raised and the exception was swallowed, the robots
\* check allows every url.
C8_FailOpenRobots ==
    robots_read = "raised" => \A u \in AllUrls : can_fetch_url(u, rp)

SeedGetFailed == <<"Error crawling", base_url, "RequestException">> \in out

\* C9 as stated: when the GET of the seed fails and max_pages >= 1, crawl()
\* returns a report map without keys.
C9_SeedFailureNoKeys ==
    (pc = "done" /\ max_pages >= 1 /\ SeedGetFailed) => DOMAIN report = {}

\* C9 as amended: when the GET of the seed fails and max_pages >= 1, crawl()
\* returns a report map whose only key is the seed, mapped to the empty
\* result, and nothing else was dispatched.
C9_SeedFailureEmptyEntry ==
    (pc = "done" /\ max_pages >= 1 /\ SeedGetFailed)
        => /\ DOMAIN report = {base_url}
           /\ report[base_url] = EmptyResult
           /\ submitted = <<base_url>>

\* crawl() has returned after the GET of the seed failed
C9_Witness == pc = "done" /\ max_pages >= 1 /\ SeedGetFailed

\* C10: the invocation for a url whose processing raised returns the empty
\* result and no discovered links.
C10_ExceptionGivesEmptyResult ==
    \A f \in DOMAIN futures :
        (futures[f].pc = "done" /\ Raised(futures[f].url))
            => /\ ~futures[f].is_none
               /\ futures[f].result = EmptyResult
               /\ futures[f].new_links = <<>>

\* C11: in a call of crawl() with max_pages = 0 nothing is ever submitted to
\* the executor, so no process_page call exists, no page is fetched, no line
\* is printed and the report stays empty; only robots.txt may be read.
C11_ZeroBudgetDispatchesNothing ==
    max_pages = 0 =>
        /\ submitted = <<>>
        /\ futures = <<>>
        /\ report = <<>>
        /\ out = {}
        /\ visited = at_call.visited
        /\ \A url \in AllUrls : site[url] = <<>>

\* crawl(seed, 0) has returned, in a process where nothing was crawled before
C11_Witness ==
    /\ pc = "done"
    /\ max_pages = 0
    /\ robots_read # "pending"
    /\ at_call.visited = {}
    /\ report = <<>>
    /\ to_visit = <<base_url>>

\* C12: visited holds every url that is in to_visit (so every url that ever
\* was: visited only grows) and every key of the report; the seed from the
\* start, a discovered link from the moment it is queued.
C12_VisitedCoversFrontier ==
    /\ \A k \in 1..Len(to_visit) : to_visit[k] \in visited
    /\ DOMAIN report \subseteq visited

\* the process_page call of this future takes a step
StepOf(future) ==
    /\ future \in DOMAIN futures
    /\ future \in DOMAIN futures'
    /\ futures'[future] # futures[future]

\* C13: the process_page call of a url that robots.txt disallows ends in one
\* step, without a GET or HEAD: it returns the empty result (not None) and no
\* links, prints nothing, and leaves crawl_count and all other shared state
\* as they were.
C13_DisallowedIsNotFetched ==
    [][\A future \in DOMAIN futures :
          ( /\ Running(future, "begin")
            /\ ~can_fetch_url(futures[future].url, rp)
            /\ StepOf(future) )
          => /\ futures'[future].pc = "done"
             /\ ~futures'[future].is_none
             /\ futures'[future].result = EmptyResult
             /\ futures'[future].new_links = <<>>
             /\ futures'[future].links = <<>>
             /\ UNCHANGED <<crawl_count, site, out, visited, to_visit, report>>]_vars

\* a url that the robots.txt read by crawl() disallows was dispatched, its
\* process_page call has returned and crawl() recorded its empty result
C13_Witness ==
    /\ robots_read = "parsed"
    /\ \E future \in DOMAIN futures :
          /\ futures[future].pc = "done"
          /\ ~can_fetch_url(futures[future].url, rp)
          /\ futures[future].url # base_url
          /\ futures[future].url \in DOMAIN report
          /\ report[futures[future].url] = EmptyResult
          /\ site[futures[future].url] = <<>>
          /\ ~Crawled(futures[future].url)

\* C14: at every moment at most max_workers process_page invocations are
\* submitted and not yet completed.
C14_PoolBound == Cardinality(InFlight) <= max_workers

\* two workers, both busy at once
C14_Witness ==
    /\ max_workers = 2
    /\ Cardinality(InFlight) = 2
    /\ \E future \in InFlight : futures[future].pc # "begin"

\* some process_page call takes a step
WorkerStep == \E future \in DOMAIN futures : StepOf(future)

CrawledLines == {line \in out : line[1] = "Crawled"}

\* this process_page call has returned after processing its page without
\* error: not from the budget guard, the robots check or the except clause
CompletedOk(future) ==
    /\ futures[future].pc = "done"
    /\ ~futures[future].is_none
    /\ can_fetch_url(futures[future].url, rp)
    /\ ~Raised(futures[future].url)

\* C16: crawl_count goes up by exactly one for each page processed without
\* error and never otherwise: the lines 'Crawled (n/max_pages)' carry the
\* numbers after the count the call started from, one line per such page,
\* none for a page that was disallowed or raised, and when crawl() returns
\* the count has grown by the number of report keys processed without error.
C16_CountedOncePerPage ==
    /\ crawl_count - at_call.crawl_count = Cardinality(CrawledLines)
    /\ {line[2] : line \in CrawledLines} = (at_call.crawl_count + 1)..crawl_count
    /\ Cardinality({line[3] : line \in CrawledLines}) = Cardinality(CrawledLines)
    /\ \A line \in CrawledLines : line[3] \in Dispatched /\ ~Raised(line[3])
    /\ \A future \in DOMAIN futures :
          Crawled(futures[future].url) <=> CompletedOk(future)
    /\ pc = "done" =>
          crawl_count - at_call.crawl_count =
             Cardinality({url \in DOMAIN report :
                             can_fetch_url(url, rp) /\ ~Raised(url)})

\* crawl() returned after two workers crawled two pages, found one url
\* disallowed and failed on one
C16_Witness ==
    /\ pc = "done"
    /\ max_workers = 2
    /\ at_call.crawl_count = 0
    /\ crawl_count = 2
    /\ \E url \in DOMAIN report : Raised(url)
    /\ \E url \in DOMAIN report : ~can_fetch_url(url, rp)

\* C17 as stated: when the scheduler goes into its delay, invocations it
\* submitted before are still in flight.
C17_DelayOverlapsWork ==
    [][(pc # "sleep" /\ pc' = "sleep") => InFlight' # {}]_vars

\* C17: whenever the scheduler is in its delay, every invocation submitted
\* before has returned and was collected: the delay holds up the next batch
\* only, and no submitted work is left that it could hold up.
C17_DelayAfterBatch ==
    pc = "sleep" => (InFlight = {} /\ yielded = DOMAIN futures)

\* the scheduler sleeps after a batch of two, with urls left for a next batch
C17_Witness ==
    /\ pc = "sleep"
    /\ Cardinality(DOMAIN futures) = 2
    /\ to_visit # <<>>
    /\ under_budget

\* this call of crawl() started from the module state of a fresh process
FreshCall == at_call.visited = {} /\ at_call.crawl_count = 0

\* C18: in a call of crawl() that started from fresh module state no
\* process_page call returns None from its budget guard, every dispatched url
\* is in the report once its result was collected, and when crawl() returns
\* the keys of the report are exactly the visited urls.
C18_GuardNeverFires ==
    FreshCall =>
        /\ \A future \in DOMAIN futures : ~futures[future].is_none
        /\ visited = Dispatched
        /\ \A future \in yielded : futures[future].url \in DOMAIN report
        /\ pc \in {"sleep", "outer", "done"} => DOMAIN report = visited

\* a fresh call returned with the budget used up by a last batch of two
C18_Witness ==
    /\ FreshCall
    /\ pc = "done"
    /\ max_pages >= 3
    /\ crawl_count = max_pages
    /\ Cardinality(DOMAIN futures) = 2
    /\ DOMAIN report = visited

\* C19: batches are separated by a full barrier, and workers keep off the
\* frontier and the report. An invocation leaves the futures of the
\* scheduler, as all do when a new batch or a new call begins, only after it
\* has completed and its result was collected; so whenever the scheduler
\* pops or appends, the invocations in flight are of the current batch
\* alone. And no step of a process_page call changes to_visit or the report.
C19_BatchBarrier ==
    [][ /\ \A future \in DOMAIN futures :
              future \notin DOMAIN futures' =>
                 futures[future].pc = "done" /\ future \in yielded
        /\ (pc \in {"outer", "sleep", "done"}) => InFlight = {}
        /\ (to_visit' # to_visit \/ report' # report) =>
              (~WorkerStep /\ pc \in {"inner", "collect", "done"}) ]_vars

\* in the second batch the scheduler has appended the links of one worker
\* while the other worker of the batch is still in flight
C19_Witness ==
    /\ pc = "collect"
    /\ Len(submitted) = 3
    /\ Cardinality(DOMAIN futures) = 2
    /\ InFlight # {}
    /\ yielded # {}
    /\ to_visit # <<>>

\* C20: visited and crawl_count outlive a call of crawl(). When a call with
\* max_pages >= 1 returns the seed is in visited, so a later call in the same
\* process with the same seed finds it there: that call submits nothing,
\* fetches nothing, prints nothing and returns an empty report, whatever its
\* max_pages and max_workers.
C20_SecondCallIsEmpty ==
    /\ (pc = "done" /\ max_pages >= 1) => base_url \in visited
    /\ base_url \in at_call.visited =>
          /\ submitted = <<>>
          /\ futures = <<>>
          /\ report = <<>>
          /\ out = {}
          /\ visited = at_call.visited
          /\ crawl_count = at_call.crawl_count

\* a later call with budget left and two workers popped the seed, skipped it
\* and returned
C20_Witness ==
    /\ base_url \in at_call.visited
    /\ pc = "done"
    /\ under_budget
    /\ max_workers = 2
    /\ to_visit = <<>>
    /\ report = <<>>

====
